---- MODULE Spec2Model ----
(***************************************************************************)
(* Model of the citation-resolution pipeline of the retrieval-augmented    *)
(* chat assistant: chat() (app/actions.ts), generateEmbedding              *)
(* (lib/embedding.ts) and searchDocuments / buildContext /                 *)
(* generateCitationUrls (lib/rag.ts).                                      *)
(*                                                                         *)
(* Similarities are fixed-point numbers in units of 1/10000, so that       *)
(* similarity * 100 to one decimal is a real rounding.  Strings that the   *)
(* code formats and parses again (the relevance) are sequences of          *)
(* one-character strings; error messages are sequences of text pieces.     *)
(***************************************************************************)
EXTENDS Integers, Sequences, FiniteSets, TLC

\* ------------------------------------------------------------------ bounds
NumDocs == 2
MaxMatches == 3
MaxRows == 2
MaxHistory == 2
MaxTokens == 2
MaxTexts == 3
MaxSections == 3
MaxExistingSessions == 2
MaxConcurrentHistory == 1

\* ------------------------------------------------------- program constants
Dimensions == 1536
MaxRetries == 3
RetryDelayMs == 1000
MatchThreshold == 4500
MatchCount == 5
ExpirySeconds == 3600
DefaultBatchSize == 100

\* ------------------------------------------------------------ input domains
DocIds == 1..NumDocs
\* 0.4500 (not above the threshold), 0.6000, 0.7004 (rounds to 70.0), 0.8500
Similarities == {4500, 6000, 7004, 8500}
\* heading is null (<<>>) or a string, content a string; the pipelines do not
\* look at them, so their matches carry one value of each
DocumentMatch ==
  [document_id : DocIds, similarity : Similarities,
   heading : {<<>>}, content : {<<"t">>}]

RECURSIVE SeqsUpTo(_, _)
SeqsUpTo(S, n) ==
  IF n = 0 THEN {<<>>}
  ELSE LET shorter == SeqsUpTo(S, n - 1)
       IN shorter \cup {Append(s, x) : s \in {t \in shorter : Len(t) = n - 1}, x \in S}

\* ---------------------------------------------------------------- strings
Digits == <<"0", "1", "2", "3", "4", "5", "6", "7", "8", "9">>

RECURSIVE IntToStr(_)
IntToStr(n) ==
  IF n < 10 THEN <<Digits[n + 1]>>
  ELSE Append(IntToStr(n \div 10), Digits[(n % 10) + 1])

\* document_name and storage_path are columns of the owning document
DocumentName(d) == <<"doc">> \o IntToStr(d) \o <<".pdf">>
StoragePath(d) == <<"uploads/">> \o IntToStr(d) \o <<".pdf">>

DigitValue(c) == CHOOSE d \in 0..9 : Digits[d + 1] = c
IsDigit(c) == \E d \in 0..9 : Digits[d + 1] = c

\* (similarity * 100).toFixed(1): similarity is in 1/10000, the result has
\* one decimal; ties round half up.
ToFixed1(sim) ==
  LET tenths == (sim + 5) \div 10
  IN IntToStr(tenths \div 10) \o <<".">> \o <<Digits[(tenths % 10) + 1]>>

\* `${(match.similarity * 100).toFixed(1)}%`
FormatRelevance(sim) == ToFixed1(sim) \o <<"%">>

\* parseFloat: the longest numeric prefix "ddd" or "ddd.ddd"; what follows
\* (the "%") is ignored.  The value is returned in tenths.
RECURSIVE DigitRun(_, _)
DigitRun(s, i) ==
  IF i <= Len(s) /\ IsDigit(s[i]) THEN DigitRun(s, i + 1) ELSE i

RECURSIVE DigitsToInt(_, _, _)
DigitsToInt(s, from, to) ==
  IF from >= to THEN 0
  ELSE DigitsToInt(s, from, to - 1) * 10 + DigitValue(s[to - 1])

ParseFloatTenths(s) ==
  LET e == DigitRun(s, 1)
      whole == DigitsToInt(s, 1, e)
      hasFrac == e < Len(s) /\ s[e] = "." /\ IsDigit(s[e + 1])
  IN whole * 10 + (IF hasFrac THEN DigitValue(s[e + 1]) ELSE 0)

\* ------------------------------------------------------------- citations
Absent == <<>>
CitationBadNoError(match, url, error) ==
  [name |-> DocumentName(match.document_id),
   documentId |-> match.document_id,
   url |-> url,
   relevance |-> FormatRelevance(match.similarity),
   error |-> Absent]
Citation(match, url, error) ==
  [name |-> DocumentName(match.document_id),
   documentId |-> match.document_id,
   url |-> url,
   relevance |-> FormatRelevance(match.similarity),
   error |-> error]

\* citations.sort((a, b) => parseFloat(b.relevance) - parseFloat(a.relevance))
\* Array.prototype.sort is stable: equal scores keep their order.
RECURSIVE InsertByScore(_, _)
InsertByScore(sorted, c) ==
  IF sorted = <<>> THEN <<c>>
  ELSE LET last == sorted[Len(sorted)]
       IN IF ParseFloatTenths(last.relevance) >= ParseFloatTenths(c.relevance)
          THEN Append(sorted, c)
          ELSE Append(InsertByScore(SubSeq(sorted, 1, Len(sorted) - 1), c), last)

RECURSIVE SortByRelevanceRec(_, _)
SortByRelevanceRec(cs, n) ==
  IF n = 0 THEN <<>>
  ELSE InsertByScore(SortByRelevanceRec(cs, n - 1), cs[n])

SortByRelevance(cs) == SortByRelevanceRec(cs, Len(cs))

\* documentMap: a Map in insertion order, as a sequence of matches with
\* distinct document_id.  Map.set on an existing key keeps the key's place.
MapHas(map, d) == \E i \in 1..Len(map) : map[i].document_id = d
MapIndex(map, d) == CHOOSE i \in 1..Len(map) : map[i].document_id = d

DocumentMapSetBadAppend(map, match) == Append(map, match)
DocumentMapSet(map, match) ==
  IF ~MapHas(map, match.document_id)
  THEN Append(map, match)
  ELSE LET i == MapIndex(map, match.document_id)
       IN IF match.similarity > map[i].similarity
          THEN [map EXCEPT ![i] = match]
          ELSE map

RECURSIVE BuildDocumentMap(_, _)
BuildDocumentMap(ms, n) ==
  IF n = 0 THEN <<>>
  ELSE DocumentMapSet(BuildDocumentMap(ms, n - 1), ms[n])

\* Array.from(new Set(matches.map(m => m.document_id))): first occurrences
RECURSIVE UniqueDocs(_, _)
UniqueDocs(ms, n) ==
  IF n = 0 THEN <<>>
  ELSE LET prev == UniqueDocs(ms, n - 1)
       IN IF \E i \in 1..Len(prev) : prev[i] = ms[n].document_id
          THEN prev
          ELSE Append(prev, ms[n].document_id)

\* matches.find(m => m.document_id === docId)
FindFirst(ms, d) ==
  ms[CHOOSE i \in 1..Len(ms) :
        /\ ms[i].document_id = d
        /\ \A j \in 1..(i - 1) : ms[j].document_id # d]

GenericError == <<"Failed to generate citations">>

\* the catch block of generateCitationUrls
FallbackCitationsBadEmpty(ms) == <<>>
FallbackCitations(ms) ==
  LET docs == UniqueDocs(ms, Len(ms))
  IN [k \in 1..Len(docs) |-> Citation(FindFirst(ms, docs[k]), Absent, <<GenericError>>)]

\* what supabase.storage.createSignedUrl can do for one document
MintOutcomes == {"signed", "error", "nourl", "throwError", "throwOther"}
SignedUrl(path) == <<"https://storage/sign/">> \o path \o <<"?expires=">> \o IntToStr(ExpirySeconds)
StorageErrorMessage == <<"Object not found">>
ThrownMessage == <<"fetch failed">>
NoUrlMessage == <<"No signed URL returned">>
UnknownMessage == <<"Unknown error">>

\* the body of the per-document try/catch: the citation pushed for `match`
MintCitationBadNoUrlSkipped(match, outcome) ==
  CASE outcome = "signed" -> <<Citation(match, <<SignedUrl(StoragePath(match.document_id))>>, Absent)>>
    [] outcome = "error" -> <<>>
    [] outcome = "nourl" -> <<>>
    [] outcome = "throwError" -> <<>>
    [] OTHER -> <<>>
MintCitation(match, outcome) ==
  CASE outcome = "signed" -> <<Citation(match, <<SignedUrl(StoragePath(match.document_id))>>, Absent)>>
    [] outcome = "error" -> <<Citation(match, Absent, <<StorageErrorMessage>>)>>
    [] outcome = "nourl" -> <<Citation(match, Absent, <<NoUrlMessage>>)>>
    [] outcome = "throwError" -> <<Citation(match, Absent, <<ThrownMessage>>)>>
    [] OTHER -> <<Citation(match, Absent, <<UnknownMessage>>)>>

\* ------------------------------------------------------------------ state
VARIABLES
  entry,        \* the exported function that was called: "chat" or "resolve"
  messages,     \* chat: the conversation history passed in
  pc,           \* chat: position of the request
  attempt,      \* generateEmbedding: loop counter
  delays,       \* generateEmbedding: the setTimeout delays waited so far
  lastError,    \* generateEmbedding: lastError (optional message)
  embedding,    \* chat: the embedding vector (its length), optional
  openaiClient, \* lib/embedding: the module-level client singleton
  calls,        \* external calls made, per collaborator (admin, rpc:
                \* the outcomes of the calls, in order; sign: the number
                \* of createSignedUrl calls issued)
  matches,      \* the match list (search result / argument of resolve)
  context,      \* chat: buildContext(matches), optional
  stream,       \* chat: the streamable value returned to the caller
  result,       \* chat: how chat() ended (optional)
  rpos,         \* generateCitationUrls: position
  documentMap,  \* generateCitationUrls: documentMap
  citations,    \* generateCitationUrls: citations being built
  resolved,     \* generateCitationUrls: how it ended (optional)
  signLog,      \* the createSignedUrl calls made, in order, with their outcome
  llmInput,     \* chat: what was passed to streamText (optional)
  batch,        \* generateEmbeddingsBatch: arguments, locals, requests, outcome
  store,        \* searchDocuments called directly: the sections table, the
                \* options and the outcome
  requests,     \* two concurrent chat() requests: the locals of each
  sessions,     \* the rows of sbwc_chat_sessions of the user
  sessionCalls  \* the getOrCreateSession calls in progress: locals of each

chatVars == <<entry, messages, pc, attempt, delays, lastError, embedding,
              openaiClient, context, stream, result, llmInput, batch, store,
              requests, sessions, sessionCalls>>
vars == <<entry, messages, pc, attempt, delays, lastError, embedding,
          openaiClient, calls, matches, context, stream, result,
          rpos, documentMap, citations, resolved, signLog, llmInput,
          batch, store, requests, sessions, sessionCalls>>

NoCalls == [embed |-> 0, admin |-> <<>>, rpc |-> <<>>, llm |-> 0, sign |-> 0]
NoStream == [chunks |-> <<>>, status |-> "none", error |-> Absent]
NoBatch == [pos |-> "off"]
NoStore == [pos |-> "off"]
NoRequests == <<>>
NoSessions == <<>>
NoSessionCalls == <<>>

Returned(v) == <<[kind |-> "return", value |-> v]>>
Threw(msg) == <<[kind |-> "throw", value |-> msg]>>

\* ------------------------------------------------- generateCitationUrls
\* the call itself: the empty check runs before the try block
GenerateCitationUrlsBadNoEmptyCheck ==
  /\ rpos = "call"
  /\ rpos' = "client"
  /\ UNCHANGED <<chatVars, calls, matches, documentMap, citations, signLog, resolved>>
GenerateCitationUrls ==
  /\ rpos = "call"
  /\ IF Len(matches) = 0
     THEN /\ resolved' = Returned(<<>>)
          /\ rpos' = "returned"
     ELSE /\ resolved' = resolved
          /\ rpos' = "client"
  /\ UNCHANGED <<chatVars, calls, matches, documentMap, citations, signLog>>

\* await createAdminSupabaseClient(); then the dedup loop and the
\* createSignedUrl call of the first iteration, or the catch block
CreateAdminClient(ok) ==
  /\ rpos = "client"
  /\ calls' = [calls EXCEPT !.admin = Append(@, ok),
                            !.sign = IF ok THEN @ + 1 ELSE @]
  /\ IF ok
     THEN /\ documentMap' = BuildDocumentMap(matches, Len(matches))
          /\ citations' = <<>>
          /\ rpos' = "mint"
          /\ resolved' = resolved
     ELSE /\ resolved' = Returned(FallbackCitations(matches))
          /\ rpos' = "returned"
          /\ UNCHANGED <<documentMap, citations>>
  /\ UNCHANGED <<chatVars, matches, signLog>>

\* the await of one iteration of the for loop over documentMap.entries()
\* resolves: the push, then the createSignedUrl call of the next iteration;
\* after the last one, the sort and return
MintSignedUrl(outcome) ==
  /\ rpos = "mint"
  /\ Len(signLog) < Len(documentMap)
  /\ LET match == documentMap[Len(signLog) + 1]
         pushed == citations \o MintCitation(match, outcome)
     IN /\ signLog' = Append(signLog, [documentId |-> match.document_id, outcome |-> outcome])
        /\ IF Len(signLog) + 1 = Len(documentMap)
           THEN /\ citations' = SortByRelevance(pushed)
                /\ resolved' = Returned(SortByRelevance(pushed))
                /\ rpos' = "returned"
           ELSE /\ citations' = pushed
                /\ UNCHANGED <<resolved, rpos>>
        /\ calls' = [calls EXCEPT !.sign =
                       IF Len(signLog) + 1 = Len(documentMap) THEN @
                       ELSE @ + 1]
  /\ UNCHANGED <<chatVars, matches, documentMap>>

ResolverNext ==
  \/ GenerateCitationUrls
  \/ \E ok \in BOOLEAN : CreateAdminClient(ok)
  \/ \E o \in MintOutcomes : MintSignedUrl(o)

\* ---------------------------------------------- resolve() called directly
InitResolve ==
  /\ entry = "resolve"
  /\ requests = NoRequests
  /\ sessions = NoSessions
  /\ sessionCalls = NoSessionCalls
  /\ matches \in SeqsUpTo(DocumentMatch, MaxMatches)
  /\ rpos = "call"
  /\ documentMap = <<>>
  /\ citations = <<>>
  /\ resolved = <<>>
  /\ signLog = <<>>
  /\ calls = NoCalls
  /\ messages = <<>>
  /\ pc = "none"
  /\ attempt = 0
  /\ delays = <<>>
  /\ lastError = Absent
  /\ embedding = Absent
  /\ openaiClient = FALSE
  /\ context = Absent
  /\ stream = NoStream
  /\ result = <<>>
  /\ llmInput = Absent
  /\ batch = NoBatch
  /\ store = NoStore

SpecResolve == InitResolve /\ [][ResolverNext]_vars

\* ================================================================= chat()
\* conversation histories: message contents are character sequences
Contents == {<<>>, <<" ">>, <<"q">>}
Message == [role : {"user"}, content : Contents]

RECURSIVE TrimStart(_)
TrimStart(t) == IF t # <<>> /\ Head(t) = " " THEN TrimStart(Tail(t)) ELSE t
RECURSIVE TrimEnd(_)
TrimEnd(t) ==
  IF t # <<>> /\ t[Len(t)] = " " THEN TrimEnd(SubSeq(t, 1, Len(t) - 1)) ELSE t
Trim(t) == TrimEnd(TrimStart(t))

\* error messages: sequences of text pieces; includes() looks for a piece
NoMessagesError == <<"No messages provided">>
InvalidFormatError == <<"Invalid message format">>
EmptyTextError == <<"Cannot generate embedding for empty text">>
MissingKeyError == <<"Missing OPENAI_API_KEY environment variable">>
NoEmbeddingError == <<"No embedding returned from OpenAI API">>
DimensionError(got) ==
  <<"Expected ">> \o IntToStr(Dimensions) \o <<" dimensions", ", got ">> \o IntToStr(got)
ExhaustedError(last) ==
  <<"Failed to generate embedding after ">> \o IntToStr(MaxRetries) \o <<" attempts: ">> \o last
ProviderErrors == {<<"Connection error.">>,
                   <<"This model does not support specifying", " dimensions", ".">>}
RpcErrorMessage == <<"canceling statement due to statement timeout">>
MissingServiceKeyError == <<"Missing SUPABASE_SERVICE_ROLE_KEY environment variable">>
VectorSearchError(m) == <<"Vector search failed: ">> \o m
SearchDocumentsError(m) == <<"Failed to search documents: ">> \o m
LlmErrorMessage == <<"Streaming failed">>

Includes(msg, piece) == \E i \in 1..Len(msg) : msg[i] = piece

\* the test of the catch block of generateEmbedding: no retry
IsValidationErrorBadNever(msg) == FALSE
IsValidationError(msg) ==
  Includes(msg, "Cannot generate embedding for empty text") \/ Includes(msg, " dimensions")

\* what client.embeddings.create can answer
VectorLengths == {Dimensions, 384}
ProviderResponses ==
  [kind : {"vector"}, len : VectorLengths, msg : {<<>>}]
    \cup [kind : {"nodata"}, len : {0}, msg : {<<>>}]
    \cup [kind : {"reject"}, len : {0}, msg : ProviderErrors]

\* the error thrown inside the try block for a response, if any (optional)
AttemptErrorBadNoDimensionCheck(resp) ==
  CASE resp.kind = "reject" -> <<resp.msg>>
    [] resp.kind = "nodata" -> <<NoEmbeddingError>>
    [] OTHER -> Absent
AttemptError(resp) ==
  CASE resp.kind = "reject" -> <<resp.msg>>
    [] resp.kind = "nodata" -> <<NoEmbeddingError>>
    [] resp.kind = "vector" /\ resp.len # Dimensions -> <<DimensionError(resp.len)>>
    [] OTHER -> Absent

\* EMBEDDING_CONFIG.retryDelayMs * Math.pow(2, attempt - 1)
RECURSIVE Pow2(_)
Pow2(n) == IF n = 0 THEN 1 ELSE 2 * Pow2(n - 1)
DelayMsBadConstant(a) == RetryDelayMs
DelayMs(a) == RetryDelayMs * Pow2(a - 1)

\* the rows match_sbwc_document_sections can return: similarity above the
\* threshold, descending, at most match_count rows
IsDescending(rows) ==
  \A i \in 1..(Len(rows) - 1) : rows[i].similarity >= rows[i + 1].similarity
RpcRows ==
  {rows \in SeqsUpTo(DocumentMatch, MaxRows) :
     /\ Len(rows) <= MatchCount
     /\ \A i \in 1..Len(rows) : rows[i].similarity > MatchThreshold
     /\ IsDescending(rows)}
RpcOutcomes ==
  [kind : {"error", "null"}, rows : {<<>>}] \cup [kind : {"rows"}, rows : RpcRows]

\* buildContext: the sentinel, or one block per match; a text is the
\* sequence of its pieces and the empty string is <<>>
Sentinel == <<"No relevant context found.">>

\* parts.join(sep)
RECURSIVE Join(_, _)
Join(parts, sep) ==
  IF parts = <<>> THEN <<>>
  ELSE IF Len(parts) = 1 THEN parts[1]
  ELSE parts[1] \o <<sep>> \o Join(Tail(parts), sep)

\* if (match.heading): neither null nor the empty string
HasHeading(match) == match.heading # <<>> /\ match.heading[1] # <<>>

\* the callback of matches.map: index is the 0-based position
ContextBlock(match, index) ==
  LET head == << <<"--- Source ">> \o IntToStr(index + 1) \o <<" (Relevance: ">>
                   \o ToFixed1(match.similarity) \o <<"%) ---">>,
                 <<"Document: ">> \o DocumentName(match.document_id) >>
      section == IF HasHeading(match) THEN << <<"Section: ">> \o match.heading[1] >>
                 ELSE <<>>
      content == << <<"Content: ">> \o Trim(match.content) >>
  IN Join(head \o section \o content, "\n")
BuildContextBadNoSentinel(ms) ==
  Join([k \in 1..Len(ms) |-> ContextBlock(ms[k], k - 1)], "\n\n")
BuildContext(ms) ==
  IF Len(ms) = 0 THEN Sentinel
  ELSE Join([k \in 1..Len(ms) |-> ContextBlock(ms[k], k - 1)], "\n\n")

\* Array.from(new Set(matches.map((m) => m.document_name)))
UniqueSources(ms) ==
  LET docs == UniqueDocs(ms, Len(ms))
  IN [k \in 1..Len(docs) |-> DocumentName(docs[k])]

\* the stream object of createStreamableValue()
OpenStream == [chunks |-> <<>>, status |-> "open", error |-> Absent]
ErrorStream(msg) == [chunks |-> <<>>, status |-> "error", error |-> <<msg>>]

\* the catch block of chat: what chat() ends with after `error`
ChatCatchBadRethrow(msg) == Threw(msg)
ChatCatch(msg) == Returned([object |-> "stream", citations |-> <<>>])

\* chat() fails: the error stream is created and returned
ChatFails(msg) ==
  /\ stream' = ErrorStream(msg)
  /\ result' = ChatCatch(msg)
  /\ pc' = "done"

\* the validation at the top of chat(), as the error it throws (optional)
ValidationError(msgs) ==
  IF Len(msgs) = 0 THEN <<NoMessagesError>>
  ELSE IF msgs[Len(msgs)].content = <<>> THEN <<InvalidFormatError>>
  ELSE Absent

\* chat() up to its first awaited external call: the validation, then
\* generateEmbedding's trim check and getOpenAIClient()
ChatStartBadNoValidation(hasKey) ==
  /\ pc = "start"
  /\ IF ~openaiClient /\ ~hasKey
     THEN ChatFails(MissingKeyError) /\ UNCHANGED <<attempt, openaiClient>>
     ELSE /\ openaiClient' = TRUE
          /\ attempt' = 1
          /\ pc' = "embed"
          /\ UNCHANGED <<stream, result>>
  /\ UNCHANGED <<requests, sessions, sessionCalls, batch, store, entry, messages, delays, lastError, embedding, calls, matches,
                 context, rpos, documentMap, citations, resolved, signLog, llmInput>>
ChatStart(hasKey) ==
  /\ pc = "start"
  /\ LET invalid == ValidationError(messages)
         text == messages[Len(messages)].content
     IN IF invalid # Absent
        THEN ChatFails(invalid[1]) /\ UNCHANGED <<attempt, openaiClient>>
        ELSE IF Trim(text) = <<>>
        THEN ChatFails(EmptyTextError) /\ UNCHANGED <<attempt, openaiClient>>
        ELSE IF ~openaiClient /\ ~hasKey
        THEN ChatFails(MissingKeyError) /\ UNCHANGED <<attempt, openaiClient>>
        ELSE /\ openaiClient' = TRUE
             /\ attempt' = 1
             /\ pc' = "embed"
             /\ UNCHANGED <<stream, result>>
  /\ UNCHANGED <<requests, sessions, sessionCalls, batch, store, entry, messages, delays, lastError, embedding, calls, matches,
                 context, rpos, documentMap, citations, resolved, signLog, llmInput>>

\* one pass of the retry loop: the awaited client.embeddings.create, the
\* checks on the response and the catch block
EmbeddingsCreateBadSwallow(resp) ==
  /\ pc = "embed"
  /\ calls' = [calls EXCEPT !.embed = @ + 1]
  /\ LET err == AttemptError(resp)
     IN IF err = Absent
        THEN /\ embedding' = <<resp.len>>
             /\ pc' = "search"
             /\ UNCHANGED <<lastError, attempt, stream, result>>
        ELSE /\ lastError' = err
             /\ UNCHANGED embedding
             /\ IF IsValidationError(err[1])
                THEN ChatFails(err[1]) /\ UNCHANGED attempt
                ELSE IF attempt < MaxRetries
                THEN pc' = "backoff" /\ UNCHANGED <<attempt, stream, result>>
                ELSE pc' = "search" /\ attempt' = attempt + 1 /\ UNCHANGED <<stream, result>>
  /\ UNCHANGED <<requests, sessions, sessionCalls, batch, store, entry, messages, delays, openaiClient, matches, context,
                 rpos, documentMap, citations, resolved, signLog, llmInput>>
EmbeddingsCreate(resp) ==
  /\ pc = "embed"
  /\ calls' = [calls EXCEPT !.embed = @ + 1]
  /\ LET err == AttemptError(resp)
     IN IF err = Absent
        THEN /\ embedding' = <<resp.len>>
             /\ pc' = "search"
             /\ UNCHANGED <<lastError, attempt, stream, result>>
        ELSE /\ lastError' = err
             /\ UNCHANGED embedding
             /\ IF IsValidationError(err[1])
                THEN ChatFails(err[1]) /\ UNCHANGED attempt
                ELSE IF attempt < MaxRetries
                THEN pc' = "backoff" /\ UNCHANGED <<attempt, stream, result>>
                ELSE ChatFails(ExhaustedError(err[1])) /\ attempt' = attempt + 1
  /\ UNCHANGED <<requests, sessions, sessionCalls, batch, store, entry, messages, delays, openaiClient, matches, context,
                 rpos, documentMap, citations, resolved, signLog, llmInput>>

\* the awaited setTimeout between two attempts
Backoff ==
  /\ pc = "backoff"
  /\ delays' = Append(delays, DelayMs(attempt))
  /\ attempt' = attempt + 1
  /\ pc' = "embed"
  /\ UNCHANGED <<requests, sessions, sessionCalls, batch, store, entry, messages, lastError, embedding, openaiClient, calls,
                 matches, context, stream, result, rpos, documentMap,
                 citations, resolved, signLog, llmInput>>

\* searchDocuments: await createAdminSupabaseClient()
SearchClient(ok) ==
  /\ pc = "search"
  /\ calls' = [calls EXCEPT !.admin = Append(@, ok)]
  /\ IF ok
     THEN pc' = "rpc" /\ UNCHANGED <<stream, result>>
     ELSE ChatFails(SearchDocumentsError(MissingServiceKeyError))
  /\ UNCHANGED <<requests, sessions, sessionCalls, batch, store, entry, messages, attempt, delays, lastError, embedding,
                 openaiClient, matches, context, rpos, documentMap, citations,
                 resolved, signLog, llmInput>>

\* searchDocuments: await supabase.rpc(...); then performRAGSearch builds the
\* context and chat calls generateCitationUrls(matches)
SearchRpcBadErrorAsEmpty(out) ==
  /\ pc = "rpc"
  /\ calls' = [calls EXCEPT !.rpc = Append(@, out.kind)]
  /\ matches' = out.rows
  /\ context' = <<BuildContext(out.rows)>>
  /\ rpos' = "call"
  /\ pc' = "resolve"
  /\ UNCHANGED <<stream, result>>
  /\ UNCHANGED <<requests, sessions, sessionCalls, batch, store, entry, messages, attempt, delays, lastError, embedding,
                 openaiClient, documentMap, citations, resolved, signLog, llmInput>>
SearchRpc(out) ==
  /\ pc = "rpc"
  /\ calls' = [calls EXCEPT !.rpc = Append(@, out.kind)]
  /\ IF out.kind = "error"
     THEN /\ ChatFails(SearchDocumentsError(VectorSearchError(RpcErrorMessage)))
          /\ UNCHANGED <<matches, context, rpos>>
     ELSE /\ matches' = out.rows
          /\ context' = <<BuildContext(out.rows)>>
          /\ rpos' = "call"
          /\ pc' = "resolve"
          /\ UNCHANGED <<stream, result>>
  /\ UNCHANGED <<requests, sessions, sessionCalls, batch, store, entry, messages, attempt, delays, lastError, embedding,
                 openaiClient, documentMap, citations, resolved, signLog, llmInput>>

\* generateCitationUrls has returned: the prompt is composed, the stream is
\* created, the background task calls streamText, and chat() returns
ChatComposeBadEmptyIsError ==
  /\ pc = "resolve"
  /\ rpos = "returned"
  /\ IF resolved[1].kind = "throw" \/ matches = <<>>
     THEN ChatFails(Sentinel) /\ UNCHANGED <<llmInput, calls>>
     ELSE /\ llmInput' = <<[context |-> context[1],
                            sources |-> UniqueSources(matches),
                            messages |-> messages]>>
          /\ stream' = OpenStream
          /\ calls' = [calls EXCEPT !.llm = @ + 1]
          /\ result' = Returned([object |-> "stream", citations |-> resolved[1].value])
          /\ pc' = "llmCall"
  /\ UNCHANGED <<requests, sessions, sessionCalls, batch, store, entry, messages, attempt, delays, lastError, embedding,
                 openaiClient, matches, context, rpos, documentMap, citations,
                 resolved, signLog>>
ChatCompose ==
  /\ pc = "resolve"
  /\ rpos = "returned"
  /\ IF resolved[1].kind = "throw"
     THEN ChatFails(resolved[1].value) /\ UNCHANGED <<llmInput, calls>>
     ELSE /\ llmInput' = <<[context |-> context[1],
                            sources |-> UniqueSources(matches),
                            messages |-> messages]>>
          /\ stream' = OpenStream
          /\ calls' = [calls EXCEPT !.llm = @ + 1]
          /\ result' = Returned([object |-> "stream", citations |-> resolved[1].value])
          /\ pc' = "llmCall"
  /\ UNCHANGED <<requests, sessions, sessionCalls, batch, store, entry, messages, attempt, delays, lastError, embedding,
                 openaiClient, matches, context, rpos, documentMap, citations,
                 resolved, signLog>>

\* background task: await streamText(...) settles
StreamTextSettlesBadDropsCitations(ok) ==
  /\ pc = "llmCall"
  /\ IF ok
     THEN pc' = "llmStream" /\ UNCHANGED <<stream, result>>
     ELSE /\ stream' = [stream EXCEPT !.status = "error", !.error = <<LlmErrorMessage>>]
          /\ result' = Returned([object |-> "stream", citations |-> <<>>])
          /\ pc' = "done"
  /\ UNCHANGED <<requests, sessions, sessionCalls, batch, store, entry, messages, attempt, delays, lastError, embedding,
                 openaiClient, calls, matches, context, rpos,
                 documentMap, citations, resolved, signLog, llmInput>>
StreamTextSettles(ok) ==
  /\ pc = "llmCall"
  /\ IF ok
     THEN pc' = "llmStream" /\ UNCHANGED stream
     ELSE /\ stream' = [stream EXCEPT !.status = "error", !.error = <<LlmErrorMessage>>]
          /\ pc' = "done"
  /\ UNCHANGED <<requests, sessions, sessionCalls, batch, store, entry, messages, attempt, delays, lastError, embedding,
                 openaiClient, calls, matches, context, result, rpos,
                 documentMap, citations, resolved, signLog, llmInput>>

\* background task: one step of `for await (const chunk of result.textStream)`;
\* the k-th chunk the model sends is the text of k
TextStreamNextBadKeepsReading(ev) ==
  /\ pc = "llmStream"
  /\ CASE ev = "chunk" ->
            /\ Len(stream.chunks) < MaxTokens
            /\ stream' = [stream EXCEPT !.chunks = Append(@, IntToStr(Len(@) + 1))]
            /\ pc' = pc
       [] ev = "end" ->
            /\ stream' = [stream EXCEPT !.status = "done"]
            /\ pc' = "done"
       [] OTHER ->
            /\ stream.status = "open"
            /\ stream' = [stream EXCEPT !.status = "error", !.error = <<LlmErrorMessage>>]
            /\ pc' = pc
  /\ UNCHANGED <<requests, sessions, sessionCalls, batch, store, entry, messages, attempt, delays, lastError, embedding,
                 openaiClient, calls, matches, context, result, rpos,
                 documentMap, citations, resolved, signLog, llmInput>>
TextStreamNext(ev) ==
  /\ pc = "llmStream"
  /\ CASE ev = "chunk" ->
            /\ Len(stream.chunks) < MaxTokens
            /\ stream' = [stream EXCEPT !.chunks = Append(@, IntToStr(Len(@) + 1))]
            /\ pc' = pc
       [] ev = "end" ->
            /\ stream' = [stream EXCEPT !.status = "done"]
            /\ pc' = "done"
       [] OTHER ->
            /\ stream' = [stream EXCEPT !.status = "error", !.error = <<LlmErrorMessage>>]
            /\ pc' = "done"
  /\ UNCHANGED <<requests, sessions, sessionCalls, batch, store, entry, messages, attempt, delays, lastError, embedding,
                 openaiClient, calls, matches, context, result, rpos,
                 documentMap, citations, resolved, signLog, llmInput>>

InitChat ==
  /\ entry = "chat"
  /\ requests = NoRequests
  /\ sessions = NoSessions
  /\ sessionCalls = NoSessionCalls
  /\ messages \in SeqsUpTo(Message, MaxHistory)
  /\ pc = "start"
  /\ attempt = 0
  /\ delays = <<>>
  /\ lastError = Absent
  /\ embedding = Absent
  /\ openaiClient \in BOOLEAN
  /\ calls = NoCalls
  /\ matches = <<>>
  /\ context = Absent
  /\ stream = NoStream
  /\ result = <<>>
  /\ rpos = "off"
  /\ documentMap = <<>>
  /\ citations = <<>>
  /\ resolved = <<>>
  /\ signLog = <<>>
  /\ llmInput = Absent
  /\ batch = NoBatch
  /\ store = NoStore

Next ==
  \/ \E hasKey \in BOOLEAN : ChatStart(hasKey)
  \/ \E resp \in ProviderResponses : EmbeddingsCreate(resp)
  \/ Backoff
  \/ \E ok \in BOOLEAN : SearchClient(ok)
  \/ \E out \in RpcOutcomes : SearchRpc(out)
  \/ GenerateCitationUrls
  \/ \E ok \in BOOLEAN : CreateAdminClient(ok)
  \/ \E o \in MintOutcomes : MintSignedUrl(o)
  \/ ChatCompose
  \/ \E ok \in BOOLEAN : StreamTextSettles(ok)
  \/ \E ev \in {"chunk", "end", "fail"} : TextStreamNext(ev)

Spec == InitChat /\ [][Next]_vars

\* the LLM call terminates: the promise of streamText settles and every read
\* of the text stream yields a chunk, the end or an error
SpecLive ==
  /\ InitChat
  /\ [][Next]_vars
  /\ WF_vars(\E ok \in BOOLEAN : StreamTextSettles(ok))
  /\ WF_vars(\E ev \in {"chunk", "end", "fail"} : TextStreamNext(ev))

\* ============================================== the batch embedding variants
\* the texts a caller passes: empty, whitespace-only and two different texts
BatchTexts == {<<>>, <<" ">>, <<"a">>, <<"b">>}
BatchSizes == {1, 2, DefaultBatchSize}

\* the vector the provider computes for a text
EmbeddingOf(t) == [of |-> t]

\* texts.slice(from, to), from and to counted from 0
Slice(s, from, to) ==
  LET last == IF to < Len(s) THEN to ELSE Len(s)
  IN IF from >= last THEN <<>> ELSE SubSeq(s, from + 1, last)

\* response.data of embeddings.create for an input list: one item per input,
\* carrying the 0-based index of its input, listed in any order
ItemOrders(n) ==
  {p \in [1..n -> 1..n] : \A i, j \in 1..n : i # j => p[i] # p[j]}
ResponseData(input, order) ==
  [k \in 1..Len(input) |->
     [index |-> order[k] - 1, embedding |-> EmbeddingOf(input[order[k]])]]
BatchResponses ==
  [kind : {"data"}, order : UNION {ItemOrders(n) : n \in 1..MaxTexts}, msg : {<<>>}]
    \cup [kind : {"reject"}, order : {<<>>}, msg : ProviderErrors]

\* response.data.sort((a, b) => a.index - b.index)
RECURSIVE InsertByIndex(_, _)
InsertByIndex(item, sorted) ==
  IF sorted = <<>> THEN <<item>>
  ELSE IF item.index < Head(sorted).index THEN <<item>> \o sorted
  ELSE <<Head(sorted)>> \o InsertByIndex(item, Tail(sorted))
RECURSIVE SortByIndexRec(_, _)
SortByIndexRec(data, n) ==
  IF n = 0 THEN <<>> ELSE InsertByIndex(data[n], SortByIndexRec(data, n - 1))
SortByIndexBadNoSort(data) == data
SortByIndex(data) == SortByIndexRec(data, Len(data))

\* .sort(...).map((item) => item.embedding)
BatchEmbeddings(data) ==
  LET sorted == SortByIndex(data)
  IN [k \in 1..Len(sorted) |-> sorted[k].embedding]

BatchExhaustedError(last) ==
  <<"Failed to generate batch embeddings after ">> \o IntToStr(MaxRetries)
    \o <<" attempts: ">> \o last
EmptyArrayError == <<"Cannot generate embeddings for empty array">>
NoValidTextsError == <<"No valid texts to generate embeddings for">>
LegacyEmbeddingError(m) == <<"Failed to generate embedding: ">> \o m
LegacyBatchError(m) == <<"Failed to generate batch embeddings: ">> \o m

\* texts.filter((t) => t && t.trim().length > 0)
RECURSIVE ValidTexts(_)
ValidTexts(ts) ==
  IF ts = <<>> THEN <<>>
  ELSE IF Trim(Head(ts)) # <<>> THEN <<Head(ts)>> \o ValidTexts(Tail(ts))
  ELSE ValidTexts(Tail(ts))

BatchFrame ==
  UNCHANGED <<requests, sessions, sessionCalls, store, entry, messages, pc, attempt, delays, lastError, embedding,
              calls, matches, context, stream, result, rpos, documentMap,
              citations, resolved, signLog, llmInput>>

\* generateEmbeddingsBatch up to its first awaited provider call
GenerateEmbeddingsBatch(hasKey) ==
  /\ batch.pos = "start"
  /\ batch.fn = "generateEmbeddingsBatch"
  /\ IF Len(batch.texts) = 0
     THEN batch' = [batch EXCEPT !.pos = "returned"] /\ UNCHANGED openaiClient
     ELSE IF ~openaiClient /\ ~hasKey
     THEN /\ batch' = [batch EXCEPT !.pos = "threw", !.error = <<MissingKeyError>>]
          /\ UNCHANGED openaiClient
     ELSE /\ openaiClient' = TRUE
          /\ batch' = [batch EXCEPT !.pos = "create", !.i = 0, !.attempt = 1]
  /\ BatchFrame

\* one pass of the retry loop of a batch: the awaited embeddings.create, the
\* ordering of its items and the catch block; after a success the outer loop
\* moves to the next batch or returns
BatchEmbeddingsCreateBadSharedBudget(resp) ==
  /\ batch.pos = "create"
  /\ LET input == Slice(batch.texts, batch.i, batch.i + batch.batchSize)
         request == [offset |-> batch.i, input |-> input, attempt |-> batch.attempt,
                     ok |-> resp.kind = "data", order |-> resp.order]
         next == batch.i + batch.batchSize
     IN /\ resp.kind = "data" => Len(resp.order) = Len(input)
        /\ IF resp.kind = "data"
           THEN batch' = [batch EXCEPT
                            !.requests = Append(@, request),
                            !.embeddings = @ \o BatchEmbeddings(ResponseData(input, resp.order)),
                            !.i = next,
                            !.attempt = @,
                            !.pos = IF next < Len(batch.texts) THEN "create" ELSE "returned"]
           ELSE IF batch.attempt < MaxRetries
           THEN batch' = [batch EXCEPT
                            !.requests = Append(@, request),
                            !.lastError = <<resp.msg>>,
                            !.pos = "backoff"]
           ELSE batch' = [batch EXCEPT
                            !.requests = Append(@, request),
                            !.lastError = <<resp.msg>>,
                            !.error = <<BatchExhaustedError(resp.msg)>>,
                            !.pos = "threw"]
  /\ UNCHANGED openaiClient
  /\ BatchFrame
BatchEmbeddingsCreate(resp) ==
  /\ batch.pos = "create"
  /\ LET input == Slice(batch.texts, batch.i, batch.i + batch.batchSize)
         request == [offset |-> batch.i, input |-> input, attempt |-> batch.attempt,
                     ok |-> resp.kind = "data", order |-> resp.order]
         next == batch.i + batch.batchSize
     IN /\ resp.kind = "data" => Len(resp.order) = Len(input)
        /\ IF resp.kind = "data"
           THEN batch' = [batch EXCEPT
                            !.requests = Append(@, request),
                            !.embeddings = @ \o BatchEmbeddings(ResponseData(input, resp.order)),
                            !.i = next,
                            !.attempt = 1,
                            !.pos = IF next < Len(batch.texts) THEN "create" ELSE "returned"]
           ELSE IF batch.attempt < MaxRetries
           THEN batch' = [batch EXCEPT
                            !.requests = Append(@, request),
                            !.lastError = <<resp.msg>>,
                            !.pos = "backoff"]
           ELSE batch' = [batch EXCEPT
                            !.requests = Append(@, request),
                            !.lastError = <<resp.msg>>,
                            !.error = <<BatchExhaustedError(resp.msg)>>,
                            !.pos = "threw"]
  /\ UNCHANGED openaiClient
  /\ BatchFrame

\* the awaited setTimeout between two attempts of a batch
BatchBackoff ==
  /\ batch.pos = "backoff"
  /\ batch' = [batch EXCEPT !.delays = Append(@, DelayMs(batch.attempt)),
                            !.attempt = @ + 1,
                            !.pos = "create"]
  /\ UNCHANGED openaiClient
  /\ BatchFrame

\* generateEmbeddingBatch of url-fetcher.ts up to its await: the checks, the
\* filter, and one generateEmbedding call started per valid text
GenerateEmbeddingBatch ==
  /\ batch.pos = "start"
  /\ batch.fn = "generateEmbeddingBatch"
  /\ LET validTexts == ValidTexts(batch.texts)
     IN IF Len(batch.texts) = 0
        THEN batch' = [batch EXCEPT !.pos = "threw",
                                    !.error = <<LegacyBatchError(EmptyArrayError)>>]
        ELSE IF Len(validTexts) = 0
        THEN batch' = [batch EXCEPT !.pos = "threw",
                                    !.error = <<LegacyBatchError(NoValidTextsError)>>]
        ELSE batch' = [batch EXCEPT
                         !.pos = "all",
                         !.requests = [k \in 1..Len(validTexts) |->
                                         [offset |-> k - 1, input |-> <<validTexts[k]>>,
                                          attempt |-> 1, ok |-> TRUE, order |-> <<1>>]]]
  /\ UNCHANGED openaiClient
  /\ BatchFrame

\* await Promise.all(...): every embed() resolved, or the first rejection
PromiseAllSettles(rejected, msg) ==
  /\ batch.pos = "all"
  /\ rejected \subseteq 1..Len(batch.requests)
  /\ IF rejected = {}
     THEN batch' = [batch EXCEPT
                      !.pos = "returned",
                      !.embeddings = [k \in 1..Len(batch.requests) |->
                                        EmbeddingOf(batch.requests[k].input[1])]]
     ELSE batch' = [batch EXCEPT
                      !.pos = "threw",
                      !.requests = [k \in 1..Len(@) |->
                                      [@[k] EXCEPT !.ok = k \notin rejected]],
                      !.lastError = <<msg>>,
                      !.error = <<LegacyBatchError(LegacyEmbeddingError(msg))>>]
  /\ UNCHANGED openaiClient
  /\ BatchFrame

BatchCalls ==
  [fn : {"generateEmbeddingsBatch"}, texts : SeqsUpTo(BatchTexts, MaxTexts),
   batchSize : BatchSizes]
    \cup [fn : {"generateEmbeddingBatch"}, texts : SeqsUpTo(BatchTexts, MaxTexts),
          batchSize : {0}]

InitBatch ==
  /\ entry = "batch"
  /\ requests = NoRequests
  /\ sessions = NoSessions
  /\ sessionCalls = NoSessionCalls
  /\ \E call \in BatchCalls :
       batch = [pos |-> "start", fn |-> call.fn, texts |-> call.texts,
                batchSize |-> call.batchSize, i |-> 0, attempt |-> 0,
                requests |-> <<>>, embeddings |-> <<>>, delays |-> <<>>,
                lastError |-> Absent, error |-> Absent]
  /\ openaiClient \in BOOLEAN
  /\ store = NoStore
  /\ messages = <<>>
  /\ pc = "off"
  /\ attempt = 0
  /\ delays = <<>>
  /\ lastError = Absent
  /\ embedding = Absent
  /\ calls = NoCalls
  /\ matches = <<>>
  /\ context = Absent
  /\ stream = NoStream
  /\ result = <<>>
  /\ rpos = "off"
  /\ documentMap = <<>>
  /\ citations = <<>>
  /\ resolved = <<>>
  /\ signLog = <<>>
  /\ llmInput = Absent

BatchNext ==
  \/ \E hasKey \in BOOLEAN : GenerateEmbeddingsBatch(hasKey)
  \/ \E resp \in BatchResponses : BatchEmbeddingsCreate(resp)
  \/ BatchBackoff
  \/ GenerateEmbeddingBatch
  \/ \E rejected \in SUBSET (1..MaxTexts), msg \in ProviderErrors :
       PromiseAllSettles(rejected, msg)

SpecBatch == InitBatch /\ [][BatchNext]_vars

\* ==================================== searchDocuments over a sections table
\* sbwc_document_sections joined with sbwc_documents: the row at position k
\* has id k; similarity is 1 - (embedding <=> query_embedding) for the query
SectionSimilarities == Similarities \ {6000}
Section == [document_id : DocIds, similarity : SectionSimilarities]
SectionRow(table, k) ==
  [id |-> k, document_id |-> table[k].document_id, similarity |-> table[k].similarity]

\* the options a caller passes: every field optional
SearchOptions ==
  [matchThreshold : {Absent, <<7004>>},
   matchCount : {Absent, <<1>>, <<2>>},
   documentIds : {Absent} \cup {<<ids>> : ids \in SUBSET DocIds}]

\* { ...DEFAULT_SEARCH_OPTIONS, ...options }; documentIds: null is Absent
SearchConfig(options) ==
  [matchThreshold |-> IF options.matchThreshold = Absent THEN MatchThreshold
                      ELSE options.matchThreshold[1],
   matchCount |-> IF options.matchCount = Absent THEN MatchCount
                  ELSE options.matchCount[1],
   documentIds |-> options.documentIds]

\* the WHERE clause of match_sbwc_document_sections
SectionQualifiesBadNotStrict(row, config) ==
  /\ row.similarity >= config.matchThreshold
  /\ config.documentIds = Absent \/ row.document_id \in config.documentIds[1]
SectionQualifies(row, config) ==
  /\ row.similarity > config.matchThreshold
  /\ config.documentIds = Absent \/ row.document_id \in config.documentIds[1]

\* the rows the scan of the table yields, in the store's physical order
\* `order` (a permutation of the row ids), then the WHERE clause
ScannedRows(table, order) ==
  LET ids == SelectSeq(order, LAMBDA k : k <= Len(table))
  IN [k \in 1..Len(ids) |-> SectionRow(table, ids[k])]
QualifyingRows(table, config, order) ==
  SelectSeq(ScannedRows(table, order), LAMBDA row : SectionQualifies(row, config))

\* ORDER BY similarity DESC; rows of equal similarity stay in scan order
RECURSIVE InsertBySimilarity(_, _)
InsertBySimilarity(row, sorted) ==
  IF sorted = <<>> THEN <<row>>
  ELSE IF row.similarity > Head(sorted).similarity THEN <<row>> \o sorted
  ELSE <<Head(sorted)>> \o InsertBySimilarity(row, Tail(sorted))
RECURSIVE OrderBySimilarityRec(_, _)
OrderBySimilarityRec(rows, n) ==
  IF n = 0 THEN <<>> ELSE InsertBySimilarity(rows[n], OrderBySimilarityRec(rows, n - 1))
OrderBySimilarity(rows) == OrderBySimilarityRec(rows, Len(rows))

\* LIMIT match_count
RowLimitBadNoLimit(n, config) == n
RowLimit(n, config) == IF n < config.matchCount THEN n ELSE config.matchCount

\* the result of match_sbwc_document_sections
MatchSections(table, config, order) ==
  LET rows == OrderBySimilarity(QualifyingRows(table, config, order))
  IN SubSeq(rows, 1, RowLimit(Len(rows), config))

SearchFrame ==
  UNCHANGED <<requests, sessions, sessionCalls, batch, entry, messages, pc, attempt, delays, lastError, embedding,
              openaiClient, calls, matches, context, stream, result, rpos,
              documentMap, citations, resolved, signLog, llmInput>>

\* searchDocuments: the config is merged; await createAdminSupabaseClient()
SearchDocuments(ok) ==
  /\ store.pos = "start"
  /\ IF ok
     THEN store' = [store EXCEPT !.pos = "rpc", !.config = <<SearchConfig(store.options)>>]
     ELSE store' = [store EXCEPT
                      !.pos = "threw",
                      !.config = <<SearchConfig(store.options)>>,
                      !.error = <<SearchDocumentsError(MissingServiceKeyError)>>]
  /\ SearchFrame

\* await supabase.rpc('match_sbwc_document_sections', ...) and the return
SearchDocumentsRpc(kind, order) ==
  /\ store.pos = "rpc"
  /\ LET data == IF kind = "rows" THEN MatchSections(store.table, store.config[1], order)
                 ELSE <<>>
     IN IF kind = "error"
        THEN store' = [store EXCEPT
                         !.pos = "threw",
                         !.rpc = <<[kind |-> kind, data |-> data]>>,
                         !.error = <<SearchDocumentsError(VectorSearchError(RpcErrorMessage))>>]
        ELSE store' = [store EXCEPT
                         !.pos = "returned",
                         !.rpc = <<[kind |-> kind, data |-> data]>>,
                         !.returned = data]
  /\ SearchFrame

InitSearch ==
  /\ entry = "search"
  /\ requests = NoRequests
  /\ sessions = NoSessions
  /\ sessionCalls = NoSessionCalls
  /\ \E table \in SeqsUpTo(Section, MaxSections), options \in SearchOptions :
       store = [pos |-> "start", table |-> table, options |-> options,
                config |-> Absent, rpc |-> Absent, returned |-> <<>>,
                error |-> Absent]
  /\ batch = NoBatch
  /\ openaiClient = FALSE
  /\ messages = <<>>
  /\ pc = "off"
  /\ attempt = 0
  /\ delays = <<>>
  /\ lastError = Absent
  /\ embedding = Absent
  /\ calls = NoCalls
  /\ matches = <<>>
  /\ context = Absent
  /\ stream = NoStream
  /\ result = <<>>
  /\ rpos = "off"
  /\ documentMap = <<>>
  /\ citations = <<>>
  /\ resolved = <<>>
  /\ signLog = <<>>
  /\ llmInput = Absent

SearchNext ==
  \/ \E ok \in BOOLEAN : SearchDocuments(ok)
  \/ \E kind \in {"error", "null", "rows"}, order \in ItemOrders(MaxSections) :
       SearchDocumentsRpc(kind, order)

SpecSearch == InitSearch /\ [][SearchNext]_vars

\* ================================================ buildContext on its own
\* matches with every kind of heading (null, empty, a text) and contents
\* that are empty, blank, plain, or padded with whitespace
ContextHeadings == {<<>>, << <<>> >>, << <<"H">> >>}
ContextContents == {<<>>, <<" ">>, <<"t">>, <<" ", "t", " ">>}
ContextMatch ==
  [document_id : DocIds, similarity : {7004},
   heading : ContextHeadings, content : ContextContents]

BuildContextCall ==
  /\ entry = "context"
  /\ context = Absent
  /\ context' = <<BuildContext(matches)>>
  /\ UNCHANGED <<requests, sessions, sessionCalls, batch, store, entry, messages, pc, attempt, delays, lastError,
                 embedding, openaiClient, calls, matches, stream, result, rpos,
                 documentMap, citations, resolved, signLog, llmInput>>

InitContext ==
  /\ entry = "context"
  /\ requests = NoRequests
  /\ sessions = NoSessions
  /\ sessionCalls = NoSessionCalls
  /\ matches \in SeqsUpTo(ContextMatch, MaxMatches)
  /\ context = Absent
  /\ batch = NoBatch
  /\ store = NoStore
  /\ openaiClient = FALSE
  /\ messages = <<>>
  /\ pc = "off"
  /\ attempt = 0
  /\ delays = <<>>
  /\ lastError = Absent
  /\ embedding = Absent
  /\ calls = NoCalls
  /\ stream = NoStream
  /\ result = <<>>
  /\ rpos = "off"
  /\ documentMap = <<>>
  /\ citations = <<>>
  /\ resolved = <<>>
  /\ signLog = <<>>
  /\ llmInput = Absent

SpecContext == InitContext /\ [][BuildContextCall]_vars

\* ======================================================= getOrCreateSession
\* the callers: two mounts of the home page (two tabs, or a remount)
SessionCallers == {"tab1", "tab2"}

\* a row of sbwc_chat_sessions of DEFAULT_USER_ID; by: who inserted it
SessionRow(id, updatedAt, by) == [id |-> id, updated_at |-> updatedAt, by |-> by]

\* the tables the user can have before the calls: no row, or rows inserted
\* earlier, updated at different times
RECURSIVE ExistingTables(_)
ExistingTables(n) ==
  IF n = 0 THEN {<<>>}
  ELSE ExistingTables(n - 1)
         \cup {[k \in 1..n |-> SessionRow(k, order[k], "earlier")] : order \in ItemOrders(n)}

\* now(): later than every updated_at of the table
Now(table) == Len(table) + 1

\* .select('id').eq('user_id', ...).order('updated_at', desc).limit(1)
MostRecent(table) ==
  IF table = <<>> THEN <<>>
  ELSE LET k == CHOOSE i \in 1..Len(table) :
                  \A j \in 1..Len(table) : table[j].updated_at <= table[i].updated_at
       IN <<table[k].id>>

SessionFrame ==
  UNCHANGED <<requests, batch, store, entry, messages, pc, attempt, delays,
              lastError, embedding, openaiClient, calls, matches, context,
              stream, result, rpos, documentMap, citations, resolved, signLog,
              llmInput>>

\* await createAdminSupabaseClient(); a throw is caught and null returned
SessionClient(c, ok) ==
  /\ sessionCalls[c].pos = "client"
  /\ sessionCalls' = [sessionCalls EXCEPT ![c].pos = IF ok THEN "select" ELSE "returned"]
  /\ UNCHANGED sessions
  /\ SessionFrame

\* the awaited select: existingSessions is the most recent row, or null with
\* fetchError, which is logged only; a row found is returned
SessionSelect(c, ok) ==
  /\ sessionCalls[c].pos = "select"
  /\ LET existingSessions == IF ok THEN MostRecent(sessions) ELSE <<>>
     IN sessionCalls' = [sessionCalls EXCEPT
                           ![c].fetchError = ~ok,
                           ![c].seen = Len(sessions),
                           ![c].pos = IF existingSessions # <<>> THEN "returned" ELSE "insert",
                           ![c].value = existingSessions]
  /\ UNCHANGED sessions
  /\ SessionFrame

\* the awaited insert(...).select('id').single(); createError returns null
SessionInsert(c, ok) ==
  /\ sessionCalls[c].pos = "insert"
  /\ IF ok
     THEN /\ sessions' = Append(sessions, SessionRow(Len(sessions) + 1, Now(sessions), c))
          /\ sessionCalls' = [sessionCalls EXCEPT ![c].pos = "returned",
                                                  ![c].value = <<Len(sessions) + 1>>]
     ELSE /\ sessionCalls' = [sessionCalls EXCEPT ![c].pos = "returned"]
          /\ UNCHANGED sessions
  /\ SessionFrame

InitSession ==
  /\ entry = "session"
  /\ requests = NoRequests
  /\ sessions \in ExistingTables(MaxExistingSessions)
  /\ sessionCalls = [c \in SessionCallers |->
                       [pos |-> "client", fetchError |-> FALSE, seen |-> 0, value |-> <<>>]]
  /\ batch = NoBatch
  /\ store = NoStore
  /\ openaiClient = FALSE
  /\ messages = <<>>
  /\ pc = "off"
  /\ attempt = 0
  /\ delays = <<>>
  /\ lastError = Absent
  /\ embedding = Absent
  /\ calls = NoCalls
  /\ matches = <<>>
  /\ context = Absent
  /\ stream = NoStream
  /\ result = <<>>
  /\ rpos = "off"
  /\ documentMap = <<>>
  /\ citations = <<>>
  /\ resolved = <<>>
  /\ signLog = <<>>
  /\ llmInput = Absent

SessionNext ==
  \/ \E c \in SessionCallers, ok \in BOOLEAN : SessionClient(c, ok)
  \/ \E c \in SessionCallers, ok \in BOOLEAN : SessionSelect(c, ok)
  \/ \E c \in SessionCallers, ok \in BOOLEAN : SessionInsert(c, ok)

SpecSession == InitSession /\ [][SessionNext]_vars

\* ============================================ two concurrent chat() requests
\* One server process, no client yet, two requests in flight. A step of a
\* request runs from the resumption of an await to the next await; the locals
\* of each request are its own, the module variable openaiClient is shared.
RequestIds == {"A", "B"}

\* getOpenAIClient(): whether a client is returned, the module variable
\* after the call, and whether this call created the client
GetOpenAIClientBadNoCache(shared, hasKey) ==
  IF shared THEN [ok |-> TRUE, shared |-> TRUE, created |-> FALSE]
  ELSE IF ~hasKey THEN [ok |-> FALSE, shared |-> FALSE, created |-> FALSE]
  ELSE [ok |-> TRUE, shared |-> FALSE, created |-> TRUE]
GetOpenAIClient(shared, hasKey) ==
  IF shared THEN [ok |-> TRUE, shared |-> TRUE, created |-> FALSE]
  ELSE IF ~hasKey THEN [ok |-> FALSE, shared |-> FALSE, created |-> FALSE]
  ELSE [ok |-> TRUE, shared |-> TRUE, created |-> TRUE]

\* the locals of a request that has just been called
NewRequest(msgs) ==
  [pc |-> "start", messages |-> msgs, found |-> FALSE, created |-> FALSE,
   attempt |-> 0, embedding |-> Absent, matches |-> <<>>, context |-> Absent,
   documentMap |-> <<>>, citations |-> <<>>, stream |-> NoStream,
   result |-> <<>>, hist |-> <<>>]

\* the external responses a request can receive, by the await they answer
RequestRows ==
  {<<>>,
   << [document_id |-> 1, similarity |-> 8500, heading |-> <<>>, content |-> <<"t">>] >>}
RequestEvents ==
  [kind : {"start"}, hasKey : BOOLEAN]
    \cup [kind : {"embed"},
          resp : {[kind |-> "vector", len |-> Dimensions, msg |-> <<>>],
                  [kind |-> "reject", len |-> 0, msg |-> <<"Connection error.">>]}]
    \cup [kind : {"backoff"}]
    \cup [kind : {"search", "resolveClient", "llmCall"}, ok : BOOLEAN]
    \cup [kind : {"rpc"}, out : [kind : {"error"}, rows : {<<>>}]
                                 \cup [kind : {"rows"}, rows : RequestRows]]
    \cup [kind : {"mint"}, outcome : {"signed", "error"}]
    \cup [kind : {"llmStream"}, ev : {"end", "fail"}]

\* the catch block of chat
RequestFails(req, msg) ==
  [req EXCEPT !.pc = "done", !.stream = ErrorStream(msg), !.result = ChatCatch(msg)]

\* generateCitationUrls has returned: the stream is created, the background
\* task calls streamText and chat() returns
RequestComposes(req, cits) ==
  [req EXCEPT !.pc = "llmCall", !.stream = OpenStream,
              !.result = Returned([object |-> "stream", citations |-> cits])]

\* one step of a request on the response `ev`, with the module variable
\* `shared` as the step finds it: the locals and the module variable after it
ChatAdvance(req, shared, ev) ==
  LET keep(next) == [req |-> [next EXCEPT !.hist = Append(@, ev)], shared |-> shared]
  IN CASE req.pc = "start" ->
            LET invalid == ValidationError(req.messages)
            IN IF invalid # Absent THEN keep(RequestFails(req, invalid[1]))
               ELSE IF Trim(req.messages[Len(req.messages)].content) = <<>>
               THEN keep(RequestFails(req, EmptyTextError))
               ELSE LET got == GetOpenAIClient(shared, ev.hasKey)
                    IN IF ~got.ok
                       THEN keep(RequestFails(req, MissingKeyError))
                       ELSE [req |-> [req EXCEPT !.pc = "embed", !.attempt = 1,
                                                 !.found = shared,
                                                 !.created = got.created,
                                                 !.hist = Append(@, ev)],
                             shared |-> got.shared]
       [] req.pc = "embed" ->
            LET err == AttemptError(ev.resp)
            IN IF err = Absent
               THEN keep([req EXCEPT !.pc = "search", !.embedding = <<ev.resp.len>>])
               ELSE IF IsValidationError(err[1]) THEN keep(RequestFails(req, err[1]))
               ELSE IF req.attempt < MaxRetries THEN keep([req EXCEPT !.pc = "backoff"])
               ELSE keep(RequestFails(req, ExhaustedError(err[1])))
       [] req.pc = "backoff" ->
            keep([req EXCEPT !.pc = "embed", !.attempt = @ + 1])
       [] req.pc = "search" ->
            IF ev.ok THEN keep([req EXCEPT !.pc = "rpc"])
            ELSE keep(RequestFails(req, SearchDocumentsError(MissingServiceKeyError)))
       [] req.pc = "rpc" ->
            IF ev.out.kind = "error"
            THEN keep(RequestFails(req, SearchDocumentsError(VectorSearchError(RpcErrorMessage))))
            ELSE LET found == [req EXCEPT !.matches = ev.out.rows,
                                          !.context = <<BuildContext(ev.out.rows)>>]
                 IN IF Len(ev.out.rows) = 0 THEN keep(RequestComposes(found, <<>>))
                    ELSE keep([found EXCEPT !.pc = "resolveClient"])
       [] req.pc = "resolveClient" ->
            IF ev.ok
            THEN keep([req EXCEPT !.pc = "mint",
                                  !.documentMap = BuildDocumentMap(req.matches, Len(req.matches))])
            ELSE keep(RequestComposes(req, FallbackCitations(req.matches)))
       [] req.pc = "mint" ->
            LET match == req.documentMap[Len(req.citations) + 1]
                pushed == req.citations \o MintCitation(match, ev.outcome)
            IN IF Len(pushed) = Len(req.documentMap)
               THEN keep(RequestComposes([req EXCEPT !.citations = SortByRelevance(pushed)],
                                         SortByRelevance(pushed)))
               ELSE keep([req EXCEPT !.citations = pushed])
       [] req.pc = "llmCall" ->
            IF ev.ok THEN keep([req EXCEPT !.pc = "llmStream"])
            ELSE keep([req EXCEPT !.pc = "done",
                                  !.stream = [@ EXCEPT !.status = "error",
                                                       !.error = <<LlmErrorMessage>>]])
       [] OTHER ->
            IF ev.ev = "end"
            THEN keep([req EXCEPT !.pc = "done", !.stream = [@ EXCEPT !.status = "done"]])
            ELSE keep([req EXCEPT !.pc = "done",
                                  !.stream = [@ EXCEPT !.status = "error",
                                                       !.error = <<LlmErrorMessage>>]])

\* a request takes the step its pending await allows
RequestStep(r, ev) ==
  /\ requests[r].pc # "done"
  /\ ev.kind = requests[r].pc
  /\ LET out == ChatAdvance(requests[r], openaiClient, ev)
     IN /\ requests' = [requests EXCEPT ![r] = out.req]
        /\ openaiClient' = out.shared
  /\ UNCHANGED <<sessions, sessionCalls, batch, store, entry, messages, pc, attempt,
                 delays, lastError, embedding, calls, matches, context, stream,
                 result, rpos, documentMap, citations, resolved, signLog, llmInput>>

InitConcurrent ==
  /\ entry = "concurrent"
  /\ requests \in [RequestIds -> {NewRequest(msgs) : msgs \in SeqsUpTo(Message, MaxConcurrentHistory)}]
  /\ openaiClient = FALSE
  /\ sessions = NoSessions
  /\ sessionCalls = NoSessionCalls
  /\ batch = NoBatch
  /\ store = NoStore
  /\ messages = <<>>
  /\ pc = "off"
  /\ attempt = 0
  /\ delays = <<>>
  /\ lastError = Absent
  /\ embedding = Absent
  /\ calls = NoCalls
  /\ matches = <<>>
  /\ context = Absent
  /\ stream = NoStream
  /\ result = <<>>
  /\ rpos = "off"
  /\ documentMap = <<>>
  /\ citations = <<>>
  /\ resolved = <<>>
  /\ signLog = <<>>
  /\ llmInput = Absent

ConcurrentNext == \E r \in RequestIds, ev \in RequestEvents : RequestStep(r, ev)

SpecConcurrent == InitConcurrent /\ [][ConcurrentNext]_vars

\* ================================================================ properties
DocSet(ms) == {ms[i].document_id : i \in 1..Len(ms)}
MaxSimilarity(ms, d) ==
  CHOOSE x \in {ms[i].similarity : i \in {j \in 1..Len(ms) : ms[j].document_id = d}} :
    \A i \in 1..Len(ms) : ms[i].document_id = d => ms[i].similarity <= x

\* the percentage strings the specification's examples give, by similarity
ExpectedRelevance(sim) ==
  CASE sim = 4500 -> <<"4", "5", ".", "0", "%">>
    [] sim = 6000 -> <<"6", "0", ".", "0", "%">>
    [] sim = 7004 -> <<"7", "0", ".", "0", "%">>
    [] sim = 8500 -> <<"8", "5", ".", "0", "%">>

\* the number a relevance string stands for, in tenths of a percent
ExpectedScore(rel) ==
  CASE rel = <<"4", "5", ".", "0", "%">> -> 450
    [] rel = <<"6", "0", ".", "0", "%">> -> 600
    [] rel = <<"7", "0", ".", "0", "%">> -> 700
    [] rel = <<"8", "5", ".", "0", "%">> -> 850

ResolveReturned == rpos = "returned" /\ resolved # <<>> /\ resolved[1].kind = "return"
ResolveValue == resolved[1].value
ClientFailed == calls.admin # <<>> /\ ~calls.admin[Len(calls.admin)]
FailedStream == stream.status = "error" /\ stream.chunks = <<>> /\ stream.error # Absent
EmptyHandedResult == result = Returned([object |-> "stream", citations |-> <<>>])

\* C1: chat() always ends by returning {object, citations}; no exception
\* escapes, whatever the embedding call, the search, the client construction,
\* the URL minting and the LLM call do.
C1_ChatAlwaysReturnsShape ==
  /\ result # <<>> =>
       /\ result[1].kind = "return"
       /\ DOMAIN result[1].value = {"object", "citations"}
       /\ stream.status \in {"open", "done", "error"}
  /\ pc \in {"llmCall", "llmStream", "done"} => result # <<>>
  /\ resolved # <<>> => resolved[1].kind = "return"

C1_Witness ==
  /\ pc = "done"
  /\ result # <<>>
  /\ calls.embed = MaxRetries
  /\ embedding = Absent
  /\ lastError = <<<<"Connection error.">>>>

\* C2: chat() with an empty history, or with a history whose last entry has
\* empty content, returns an immediately-failed stream and no citations and
\* makes no external call at all.
C2_InvalidInputFailsFast ==
  (messages = <<>> \/ messages[Len(messages)].content = <<>>) =>
    /\ calls = NoCalls
    /\ signLog = <<>>
    /\ pc \in {"start", "done"}
    /\ pc = "done" => EmptyHandedResult /\ FailedStream

C2_Witness ==
  /\ Len(messages) = 2
  /\ messages[1].content = <<"q">>
  /\ messages[2].content = <<>>
  /\ pc = "done"
  /\ FailedStream

\* C3: resolve() never returns two citations of the same document: the
\* output is no longer than the number of distinct documents of the input,
\* nor than the input, on the normal path and on the fallback path.
C3_OneCitationPerDocument ==
  ResolveReturned =>
    /\ \A i, j \in 1..Len(ResolveValue) :
         ResolveValue[i].documentId = ResolveValue[j].documentId => i = j
    /\ Len(ResolveValue) <= Cardinality(DocSet(matches))
    /\ Len(ResolveValue) <= Len(matches)

C3_Witness ==
  /\ ResolveReturned
  /\ Len(matches) = 3
  /\ Cardinality(DocSet(matches)) = 2
  /\ Len(ResolveValue) = 2
  /\ Len(signLog) = 2

\* C4 (as stated): every citation resolve() returns, degraded ones included,
\* carries the maximum similarity of its document, as a percentage with one
\* decimal.
C4_RelevanceIsMaxSimilarity ==
  ResolveReturned =>
    /\ \A d \in DocSet(matches) :
         \E i \in 1..Len(ResolveValue) : ResolveValue[i].documentId = d
    /\ \A i \in 1..Len(ResolveValue) :
         ResolveValue[i].relevance =
           ExpectedRelevance(MaxSimilarity(matches, ResolveValue[i].documentId))

\* C5 (as stated): the list resolve() returns is in descending order of the
\* numeric relevance, whatever client construction and URL minting do.
C5_SortedDescending ==
  ResolveReturned =>
    \A i \in 1..(Len(ResolveValue) - 1) :
      ExpectedScore(ResolveValue[i].relevance) >= ExpectedScore(ResolveValue[i + 1].relevance)

\* C6: URL minting is per document: each unique document gets exactly one
\* createSignedUrl call and exactly one citation, with the url present iff
\* its own call succeeded and an error iff its own call failed, whatever
\* the calls for the other documents did.
C6_MintsAreIndependent ==
  /\ rpos = "mint" => Len(citations) = Len(signLog)
  /\ (ResolveReturned /\ matches # <<>> /\ ~ClientFailed) =>
       /\ Len(signLog) = Cardinality(DocSet(matches))
       /\ {signLog[i].documentId : i \in 1..Len(signLog)} = DocSet(matches)
       /\ Len(ResolveValue) = Len(signLog)
       /\ \A i \in 1..Len(signLog) :
            \E k \in 1..Len(ResolveValue) :
              /\ ResolveValue[k].documentId = signLog[i].documentId
              /\ (ResolveValue[k].url # Absent) <=> (signLog[i].outcome = "signed")
              /\ (ResolveValue[k].error # Absent) <=> (signLog[i].outcome # "signed")

C6_Witness ==
  /\ ResolveReturned
  /\ Len(signLog) = 2
  /\ signLog[1].outcome = "error"
  /\ signLog[2].outcome = "signed"
  /\ Len(ResolveValue) = 2
  /\ \E k \in 1..2 : ResolveValue[k].url = Absent /\ ResolveValue[k].error # Absent
  /\ \E k \in 1..2 : ResolveValue[k].url # Absent

C8_EmptyInputNoCalls ==
  matches = <<>> =>
    /\ calls.admin = <<>>
    /\ signLog = <<>>
    /\ rpos \in {"call", "returned"}
    /\ rpos = "returned" => ResolveReturned /\ ResolveValue = <<>>

C8_Witness ==
  /\ matches = <<>>
  /\ rpos = "returned"
  /\ resolved = Returned(<<>>)

\* C9: when generateEmbedding fails, chat() returns an immediately-failed
\* stream and no citations, and no search, no URL minting and no LLM call
\* is made for the request.
EmbedFailed ==
  /\ pc = "done"
  /\ embedding = Absent
  /\ messages # <<>>
  /\ messages[Len(messages)].content # <<>>

C9_EmbeddingFailureIsFatal ==
  /\ embedding = Absent =>
       /\ calls.admin = <<>>
       /\ calls.rpc = <<>>
       /\ signLog = <<>>
       /\ calls.llm = 0
       /\ pc \in {"start", "embed", "backoff", "done"}
  /\ EmbedFailed => EmptyHandedResult /\ FailedStream

C9_Witness ==
  /\ EmbedFailed
  /\ calls.embed = 1
  /\ lastError # Absent
  /\ Includes(lastError[1], " dimensions")
  /\ FailedStream

\* C10: a vector-store RPC error is not retried: after the one failing RPC
\* call chat() returns an immediately-failed stream carrying the search
\* error and no citations, and neither a signed URL nor the LLM is requested.
C10_SearchErrorIsFatal ==
  (calls.rpc # <<>> /\ calls.rpc[Len(calls.rpc)] = "error") =>
    /\ calls.rpc = <<"error">>
    /\ pc = "done"
    /\ EmptyHandedResult
    /\ FailedStream
    /\ Includes(stream.error[1], "Failed to search documents: ")
    /\ Includes(stream.error[1], "Vector search failed: ")
    /\ rpos = "off"
    /\ signLog = <<>>
    /\ calls.llm = 0

C10_Witness ==
  /\ calls.rpc = <<"error">>
  /\ calls.embed = 2
  /\ pc = "done"
  /\ FailedStream

\* C11: once the background task runs, chunks are appended in arrival order
\* and the stream gets exactly one terminal signal, done or error, after
\* which nothing is pushed; if the LLM call terminates the signal comes.
StreamTerminal == stream.status \in {"done", "error"}
IsPrefix(s, t) == Len(s) <= Len(t) /\ SubSeq(t, 1, Len(s)) = s

C11_StreamState ==
  /\ \A k \in 1..Len(stream.chunks) : stream.chunks[k] = IntToStr(k)
  /\ stream.status = "done" => stream.error = Absent /\ pc = "done"
  /\ stream.status = "error" => stream.error # Absent /\ pc = "done"
  /\ stream.chunks # <<>> => calls.llm = 1

C11_StreamStep ==
  /\ StreamTerminal => stream' = stream
  /\ stream.status = "open" => IsPrefix(stream.chunks, stream'.chunks)

C11_OneTerminalSignal ==
  /\ []C11_StreamState
  /\ [][C11_StreamStep]_vars
  /\ (pc = "llmCall") ~> StreamTerminal

C11_Witness ==
  /\ pc = "done"
  /\ calls.llm = 1
  /\ stream.status = "error"
  /\ stream.chunks = <<<<"1">>, <<"2">>>>

\* C12: the citations chat() returns are those generateCitationUrls had
\* returned before streamText was called, and what chat() returned never
\* changes afterwards, whether the stream ends done or error.
C12_CitationsState ==
  calls.llm > 0 =>
    /\ rpos = "returned"
    /\ result # <<>>
    /\ result[1].value.citations = resolved[1].value

C12_CitationsStep ==
  /\ calls'.llm > calls.llm => rpos = "returned" /\ resolved # <<>>
  /\ result # <<>> => result' = result

C12_CitationsIndependentOfStream ==
  /\ []C12_CitationsState
  /\ [][C12_CitationsStep]_vars

C12_Witness ==
  /\ pc = "done"
  /\ stream.status = "error"
  /\ calls.llm = 1
  /\ Len(result[1].value.citations) = 2
  /\ \E k \in 1..2 : result[1].value.citations[k].url # Absent

\* C13: generateEmbedding makes at most 3 provider calls, waits 1000 ms
\* before the 2nd and 2000 ms before the 3rd; two transient failures and a
\* success give the vector after exactly 3 calls, and transient failures
\* only give the error after exactly 3 calls.
ExpectedDelays == <<1000, 2000>>
ConnectionError == <<"Connection error.">>

C13_RetryWithBackoff ==
  /\ calls.embed <= 3
  /\ Len(delays) <= 2
  /\ \A i \in 1..Len(delays) : delays[i] = ExpectedDelays[i]
  /\ pc = "embed" => Len(delays) = calls.embed
  /\ pc = "backoff" => calls.embed < 3 /\ Len(delays) = calls.embed - 1
  /\ embedding # Absent => calls.embed = Len(delays) + 1
  /\ (pc = "done" /\ embedding = Absent /\ lastError = <<ConnectionError>>) =>
       /\ calls.embed = 3
       /\ delays = ExpectedDelays
       /\ FailedStream
       /\ Includes(stream.error[1], "Failed to generate embedding after ")

C13_Witness ==
  /\ embedding = <<1536>>
  /\ calls.embed = 3
  /\ delays = <<1000, 2000>>
  /\ lastError = <<ConnectionError>>

\* C14: validation failures are not retried: a text that is blank after
\* trimming fails with the empty-text error before any provider call, and a
\* vector of the wrong length fails on the call that returned it, with no
\* backoff and no further call.
IsBlank(t) == \A i \in 1..Len(t) : t[i] = " "
IsDimensionMismatch(err) ==
  err # Absent /\ Head(err[1]) = "Expected " /\ Includes(err[1], " dimensions")

C14_ValidationNotRetried ==
  /\ (messages # <<>> /\ IsBlank(messages[Len(messages)].content)) =>
       /\ calls.embed = 0
       /\ pc \in {"start", "done"}
       /\ (pc = "done" /\ messages[Len(messages)].content # <<>>) =>
            stream.error = <<<<"Cannot generate embedding for empty text">>>>
  /\ IsDimensionMismatch(lastError) =>
       /\ pc = "done"
       /\ embedding = Absent
       /\ Len(delays) = calls.embed - 1
       /\ stream.error = lastError
       /\ delays = <<>> => calls.embed = 1

C14_Witness ==
  /\ IsDimensionMismatch(lastError)
  /\ pc = "done"
  /\ calls.embed = 1
  /\ delays = <<>>
  /\ stream.error = lastError

AnsweredRequests == SelectSeq(batch.requests, LAMBDA r : r.ok)
Smaller(a, b) == IF a < b THEN a ELSE b
BatchCount(n, size) == (n + size - 1) \div size

\* C16: generateEmbeddingsBatch groups the texts into consecutive batches of
\* at most batchSize texts (default 100): every request carries the slice of
\* the input list that starts at a multiple of batchSize and has batchSize
\* texts, fewer only at the end of the list; the answered requests are the
\* batches 1, 2, 3, ... in order, one request per batch when nothing fails;
\* and the output keeps the input order: its i-th vector is the embedding of
\* the i-th input text (the function retains every text), across batches and
\* whatever the order in which the provider lists the items of a batch
C16_BatchesAndOrder ==
  (batch.pos # "off" /\ batch.fn = "generateEmbeddingsBatch") =>
    LET texts == batch.texts
        size == batch.batchSize
        answered == AnsweredRequests
    IN /\ \A k \in 1..Len(batch.requests) :
            LET r == batch.requests[k]
            IN /\ r.offset % size = 0
               /\ r.offset < Len(texts)
               /\ r.input = SubSeq(texts, r.offset + 1, Smaller(r.offset + size, Len(texts)))
               /\ Len(r.input) <= size
               /\ Len(r.input) < size => r.offset + Len(r.input) = Len(texts)
       /\ \A k \in 1..Len(answered) : answered[k].offset = (k - 1) * size
       /\ Len(batch.embeddings) = Smaller(Len(answered) * size, Len(texts))
       /\ \A i \in 1..Len(batch.embeddings) : batch.embeddings[i] = EmbeddingOf(texts[i])
       /\ batch.pos = "returned" =>
            /\ Len(batch.embeddings) = Len(texts)
            /\ Len(answered) = BatchCount(Len(texts), size)
            /\ (\A k \in 1..Len(batch.requests) : batch.requests[k].ok)
                 => Len(batch.requests) = BatchCount(Len(texts), size)

\* three texts embedded in two batches, the provider listing the items of the
\* first batch in reverse, and the output still in input order
C16_Witness ==
  /\ batch.pos = "returned"
  /\ batch.fn = "generateEmbeddingsBatch"
  /\ batch.batchSize = 2
  /\ batch.texts = << <<"a">>, <<"b">>, <<"a">> >>
  /\ Len(batch.requests) = 2
  /\ batch.requests[1].order = <<2, 1>>
  /\ batch.embeddings = <<EmbeddingOf(<<"a">>), EmbeddingOf(<<"b">>), EmbeddingOf(<<"a">>)>>

\* ---- C17
NonBlankTexts(ts) == SelectSeq(ts, LAMBDA t : ~IsBlank(t))

\* C17: a batch embedding call drops blank entries: no text that is empty or
\* whitespace-only is in the input of a provider request, and a call that
\* returns gives one vector per non-blank text, in order, none for a blank one
C17_BlankEntriesDropped ==
  batch.pos # "off" =>
    /\ \A k \in 1..Len(batch.requests) :
         \A j \in 1..Len(batch.requests[k].input) : ~IsBlank(batch.requests[k].input[j])
    /\ batch.pos = "returned" =>
         LET kept == NonBlankTexts(batch.texts)
         IN batch.embeddings = [i \in 1..Len(kept) |-> EmbeddingOf(kept[i])]

\* ---- C18
\* the rows of the sections table, and those a returned call has passed on
TableRows == {SectionRow(store.table, k) : k \in 1..Len(store.table)}
ReturnedRows == {store.returned[i] : i \in 1..Len(store.returned)}
AnsweredWithRows == store.rpc # Absent /\ store.rpc[1].kind = "rows"
Allowed(row) ==
  store.config[1].documentIds = Absent
    \/ row.document_id \in store.config[1].documentIds[1]

\* C18: every section searchDocuments returns is a row of the table whose
\* similarity is strictly greater than the threshold and, when a list of
\* document ids is given, whose document is in the list; nothing else is
\* excluded: when the store answered with fewer rows than the limit, every
\* row above the threshold and allowed (every document, with a null list) is
\* returned
C18_OnlyAboveThresholdAndAllowed ==
  store.pos = "returned" =>
    /\ \A row \in ReturnedRows :
         /\ row \in TableRows
         /\ row.similarity > store.config[1].matchThreshold
         /\ row.similarity # store.config[1].matchThreshold
         /\ Allowed(row)
    /\ (AnsweredWithRows /\ Len(store.returned) < store.config[1].matchCount) =>
         \A row \in TableRows :
           (row.similarity > store.config[1].matchThreshold /\ Allowed(row))
             => row \in ReturnedRows

\* a search with a list of documents over a table that holds a section
\* exactly at the threshold and a section of a document outside the list,
\* both left out, and a section that is returned
C18_Witness ==
  /\ store.pos = "returned"
  /\ store.config[1].documentIds # Absent
  /\ Len(store.returned) >= 1
  /\ \E row \in TableRows :
       /\ row.similarity = store.config[1].matchThreshold
       /\ Allowed(row)
       /\ row \notin ReturnedRows
  /\ \E row \in TableRows :
       /\ row.similarity > store.config[1].matchThreshold
       /\ ~Allowed(row)
       /\ row \notin ReturnedRows

\* ---- C19
QualifyingSections ==
  {row \in TableRows : row.similarity > store.config[1].matchThreshold /\ Allowed(row)}

\* C19: searchDocuments never returns more than matchCount matches; the
\* matches are in descending order of similarity and are the highest ones:
\* no qualifying section left out has a higher similarity than one returned,
\* and none is left out while there is room; the caller gets the rows in the
\* order the store gave them
C19_LimitAndDescendingOrder ==
  store.pos = "returned" =>
    /\ Len(store.returned) <= store.config[1].matchCount
    /\ \A i \in 1..(Len(store.returned) - 1) :
         store.returned[i].similarity >= store.returned[i + 1].similarity
    /\ \A i, j \in 1..Len(store.returned) : i # j => store.returned[i] # store.returned[j]
    /\ \A row \in QualifyingSections \ ReturnedRows :
         \A i \in 1..Len(store.returned) : store.returned[i].similarity >= row.similarity
    /\ AnsweredWithRows =>
         /\ store.returned = store.rpc[1].data
         /\ Len(store.returned) =
              Smaller(store.config[1].matchCount, Cardinality(QualifyingSections))

\* three qualifying sections stored in ascending order of similarity and a
\* limit of two: the two highest are returned, highest first
C19_Witness ==
  /\ store.pos = "returned"
  /\ store.config[1].matchCount = 2
  /\ Cardinality(QualifyingSections) = 3
  /\ Len(store.returned) = 2
  /\ store.table[1].similarity < store.table[3].similarity
  /\ store.returned[1].id = 3
  /\ store.returned[1].similarity > store.returned[2].similarity

\* ---- C20
\* the positions of the block headers in a context, in order
HeaderPositions(text) ==
  SelectSeq([i \in 1..Len(text) |-> i], LAMBDA i : text[i] = "--- Source ")
SeparatorPositions(text) ==
  SelectSeq([i \in 1..Len(text) |-> i], LAMBDA i : text[i] = "\n\n")
\* the k-th block: from its header to the separator before the next header
BlockOf(text, k) ==
  LET at == HeaderPositions(text)
  IN SubSeq(text, at[k], IF k < Len(at) THEN at[k + 1] - 2 ELSE Len(text))
IsSuffix(t, text) ==
  Len(t) <= Len(text) /\ SubSeq(text, Len(text) - Len(t) + 1, Len(text)) = t

SearchStarted == calls.admin # <<>> \/ calls.rpc # <<>>
SearchSucceeded ==
  calls.rpc # <<>> /\ calls.rpc[Len(calls.rpc)] \in {"rows", "null"}

\* what has happened whenever a stage of a chat request has started
C21_StageState ==
  /\ SearchStarted => (embedding # Absent /\ calls.embed >= 1)
  /\ Len(calls.rpc) <= 1
  /\ (rpos # "off" \/ signLog # <<>>) => SearchSucceeded
  /\ calls.llm > 0 =>
       /\ SearchSucceeded
       /\ rpos = "returned"
       /\ resolved # <<>> /\ resolved[1].kind = "return"
       /\ Len(signLog) \in {0, Len(documentMap)}
  /\ calls.llm <= 1

\* a step that issues a call of one stage finds no later stage started
C21_StageStep ==
  /\ calls'.embed # calls.embed =>
       (~SearchStarted /\ rpos = "off" /\ signLog = <<>> /\ calls.llm = 0)
  /\ calls'.rpc # calls.rpc => (rpos = "off" /\ signLog = <<>> /\ calls.llm = 0)
  /\ signLog' # signLog => calls.llm = 0
  /\ calls'.llm # calls.llm => (calls'.embed = calls.embed /\ calls'.rpc = calls.rpc)

\* C21: in every chat request the external calls come in the order embed,
\* vector search, URL minting, LLM call, each stage starting only after the
\* one before it succeeded: the search is issued only with an embedding in
\* hand, URLs are minted only after the search returned its rows, the LLM
\* call is initiated only after generateCitationUrls returned, and no call of
\* an earlier stage is issued once a later stage has started
C21_StagesInOrder ==
  [](entry = "chat" => C21_StageState) /\ [][entry = "chat" => C21_StageStep]_vars

\* a request that went through the four stages: embedded, searched, minted a
\* URL for every matched document and initiated the LLM call
C21_Witness ==
  /\ entry = "chat"
  /\ calls.embed >= 1
  /\ SearchSucceeded
  /\ Len(signLog) = 2
  /\ calls.llm = 1

\* ---- C22
\* C22: the resolver fans the URL-minting requests out and joins them before
\* the sort: with two or more unique documents every request is issued
\* before any of them has resolved, so while the resolver is minting the
\* requests of all the documents have been issued; and a resolver that
\* returns after minting has made exactly one request per unique document
C22_MintsFanOut ==
  /\ (rpos = "mint" /\ Len(documentMap) >= 2) => calls.sign = Len(documentMap)
  /\ (rpos = "returned" /\ signLog # <<>>) =>
       /\ calls.sign = Cardinality(DocSet(matches))
       /\ Len(signLog) = Cardinality(DocSet(matches))
       /\ \A i, j \in 1..Len(signLog) :
            i # j => signLog[i].documentId # signLog[j].documentId

\* the part of C22 the loop does satisfy: one request per unique document
C22_OneRequestPerDocument ==
  (rpos = "returned" /\ signLog # <<>>) =>
    /\ calls.sign = Cardinality(DocSet(matches))
    /\ Len(signLog) = Cardinality(DocSet(matches))
    /\ \A i, j \in 1..Len(signLog) :
         i # j => signLog[i].documentId # signLog[j].documentId

\* ---- C24
\* the citation returned for a document
CitationOf(d) ==
  ResolveValue[CHOOSE k \in 1..Len(ResolveValue) : ResolveValue[k].documentId = d]

SearchFoundNothing == SearchSucceeded /\ matches = <<>>

\* C25: a search that returns no match (an empty row set, or null) is not an
\* error: the request never ends in the catch block because of it; once the
\* resolver has returned, chat() returns an open stream with citations = [],
\* the LLM call is initiated with the sentinel context and no sources, no
\* URL is minted, and the stream can fail only later, through the LLM
C25_EmptySearchIsNotAnError ==
  (entry = "chat" /\ SearchFoundNothing) =>
    /\ context = << <<"No relevant context found.">> >>
    /\ calls.sign = 0 /\ signLog = <<>>
    /\ pc \in {"resolve", "llmCall", "llmStream", "done"}
    /\ pc # "resolve" =>
         /\ calls.llm = 1
         /\ result = Returned([object |-> "stream", citations |-> <<>>])
         /\ llmInput # Absent
         /\ llmInput[1].context = <<"No relevant context found.">>
         /\ llmInput[1].sources = <<>>
         /\ stream.status = "error" => stream.error = <<LlmErrorMessage>>
    /\ pc = "llmCall" => stream = OpenStream

\* chat() has returned after a search that answered null: the stream is
\* open and the LLM call is under way
C25_Witness ==
  /\ entry = "chat"
  /\ calls.rpc = <<"null">>
  /\ matches = <<>>
  /\ pc = "llmCall"
  /\ stream.status = "open"
  /\ calls.llm = 1

\* ---- C26
\* the requests made for the batch that starts at an offset, in order
RequestsOf(offset) == SelectSeq(batch.requests, LAMBDA r : r.offset = offset)
\* the failed requests that are followed by a wait
RetriedRequests == SelectSeq(batch.requests, LAMBDA r : ~r.ok /\ r.attempt < 3)
BackoffAfter(a) == IF a = 1 THEN 1000 ELSE 2000

\* C26: generateEmbeddingsBatch retries each batch on its own: the requests
\* of a batch are its attempts 1, 2, 3 in order, at most 3 whatever happened
\* to the batches before; a failed attempt 1 is followed by a wait of 1000 ms
\* and a failed attempt 2 by 2000 ms; a batch that was embedded is the last
\* request for its offset and later requests are for later offsets; and the
\* call fails exactly when the third attempt of a batch fails
C26_BatchesRetriedIndependently ==
  (batch.pos # "off" /\ batch.fn = "generateEmbeddingsBatch") =>
    LET rs == batch.requests
        retried == RetriedRequests
        waited == IF batch.pos = "backoff" THEN Len(retried) - 1 ELSE Len(retried)
    IN /\ \A k \in 1..Len(rs) :
            LET mine == RequestsOf(rs[k].offset)
            IN /\ Len(mine) <= 3
               /\ \A a \in 1..Len(mine) : mine[a].attempt = a
               /\ \A a \in 1..(Len(mine) - 1) : ~mine[a].ok
       /\ \A k \in 1..(Len(rs) - 1) :
            /\ rs[k].offset <= rs[k + 1].offset
            /\ rs[k].ok => rs[k].offset < rs[k + 1].offset
            /\ ~rs[k].ok => (rs[k].offset = rs[k + 1].offset /\ rs[k].attempt < 3)
       /\ Len(batch.delays) = waited
       /\ \A k \in 1..Len(batch.delays) : batch.delays[k] = BackoffAfter(retried[k].attempt)
       /\ (batch.pos = "threw" /\ rs # <<>>) <=>
            (rs # <<>> /\ ~rs[Len(rs)].ok /\ rs[Len(rs)].attempt = 3)
       /\ (batch.pos = "threw" /\ rs # <<>>) =>
            /\ batch.error # Absent
            /\ Head(batch.error[1]) = "Failed to generate batch embeddings after "
       /\ batch.pos = "returned" => \A k \in 1..Len(rs) : rs[k].ok \/ rs[k].attempt < 3

\* two batches of one text: the first embedded at its third attempt, the
\* second failing three times, which fails the call after four waits
C26_Witness ==
  /\ batch.fn = "generateEmbeddingsBatch"
  /\ batch.pos = "threw"
  /\ batch.batchSize = 1
  /\ Len(batch.requests) = 6
  /\ batch.requests[3].ok
  /\ batch.requests[4].offset = 1 /\ batch.requests[4].attempt = 1
  /\ batch.delays = <<1000, 2000, 1000, 2000>>
  /\ Len(batch.embeddings) = 1

\* ---- C28
\* the request failed in generateEmbedding on an answer of the provider that
\* is not a vector of the wrong length: a rejection, a transport failure or
\* a response without data
ProviderFailure ==
  /\ EmbedFailed
  /\ lastError # Absent
  /\ ~IsDimensionMismatch(lastError)

\* C28: whether generateEmbedding retries depends only on the kind of the
\* failure: a request that fails on a provider or transport failure,
\* whatever the message of the error, has used its 3 attempts and waited
\* 1000 and 2000 ms; only the empty-text and wrong-length failures end the
\* call without a retry
C28_RetryByKindOfFailure ==
  (entry = "chat" /\ ProviderFailure) =>
    /\ calls.embed = 3
    /\ delays = <<1000, 2000>>
    /\ Includes(stream.error[1], "Failed to generate embedding after ")

\* ---- C27
EarlierRows == {k \in 1..Len(sessions) : sessions[k].by = "earlier"}
InsertedRows == {k \in 1..Len(sessions) : sessions[k].by \in SessionCallers}
\* the id of the row updated last among the rows the user had before
LatestEarlierId ==
  sessions[CHOOSE k \in EarlierRows :
             \A j \in EarlierRows : sessions[j].updated_at <= sessions[k].updated_at].id

\* C27: getOrCreateSession returns the session updated last whenever the
\* user has one and inserts only when the user has none: a user who had a
\* session before the calls has no row inserted by any call, whatever the
\* interleaving and also when a lookup fails; a call that returns a session
\* to such a user returns the one updated last; and the calls of a user
\* without a session insert at most one row
C27_NoAdditionalSession ==
  entry = "session" =>
    /\ EarlierRows # {} =>
         /\ InsertedRows = {}
         /\ \A c \in SessionCallers :
              (sessionCalls[c].pos = "returned" /\ sessionCalls[c].value # <<>>)
                => sessionCalls[c].value = <<LatestEarlierId>>
    /\ Cardinality(InsertedRows) <= 1


\* the locals a request would have had it received its own responses in
\* order, alone, starting from a module variable with the value `client`
RECURSIVE ReplayFrom(_, _, _)
ReplayFrom(req, client, events) ==
  IF events = <<>> THEN req
  ELSE LET out == ChatAdvance(req, client, Head(events))
       IN ReplayFrom(out.req, out.shared, Tail(events))

OtherRequest(r) == CHOOSE o \in RequestIds : o # r

C23_ClientState ==
  /\ openaiClient = (\E r \in RequestIds : requests[r].created)
  /\ \A r \in RequestIds :
       /\ requests[r].created => ~requests[OtherRequest(r)].created
       /\ requests[r].found => ~requests[r].created /\ requests[OtherRequest(r)].created
       /\ requests[r] = ReplayFrom(NewRequest(requests[r].messages),
                                   requests[r].found, requests[r].hist)

C23_ClientStep ==
  /\ openaiClient => openaiClient'
  /\ openaiClient' # openaiClient =>
       \E r \in RequestIds : /\ requests[r].pc = "start"
                             /\ requests'[r].created
                             /\ requests'[OtherRequest(r)] = requests[OtherRequest(r)]

====
